---------------------------- MODULE Spec2Model ----------------------------
(***************************************************************************)
(* AR placement and hit-test integration of the WebXR solar system:        *)
(* src/src/components/ARSolarSystem.js and src/src/utils/WebXRUtils.js.    *)
(*                                                                         *)
(* Lengths are integers in hundredths of a metre (0.05 m is 5) and scale   *)
(* factors are in hundredths (0.7 is 70, the identity scale 1 is 100).     *)
(* Rotation entries of a 4x4 matrix are dimensionless integers: only       *)
(* quaternions whose components are 0, 1 or -1 are used.                   *)
(***************************************************************************)
EXTENDS Integers, Sequences, FiniteSets, TLC

VARIABLES
    solarSystemRef,   \* solarSystemRef.current: [position, scale] of the root group
    placedRef,        \* placedRef.current
    xrSession,        \* the XR store's session: "none" or "active"
    xrFrame,          \* what the platform answers in the current XRFrame
    hitTestResults,   \* getHitTestResults(...) of the current XRFrame
    reticle,          \* the mesh of createReticle: [visible, matrix]
    surfaceObject,    \* the object handed to positionObjectOnSurface
    pointerDowns,     \* pointer-down events delivered to the root group so far
    uncaughtError,    \* the last frame callback ended by throwing
    secureOrigin,     \* location.protocol is https: or the hostname is localhost
    navigatorXR,      \* navigator.xr: "absent", or what isSessionSupported does
    userAgent,        \* the browser family navigator.userAgent names
    checkSupportPc,   \* checkSupport: "scheduled", "awaiting", "done"
    enterARPending,   \* the AR button's handler is awaiting xrStore.enterAR()
    statusMessage,    \* useState statusMessage
    statusType,       \* useState statusType
    statusVisible,    \* useState statusVisible
    hideTimers,       \* pending auto-hide timeouts, oldest first: the message each was set for
    requestPc,        \* requestARSession: "idle", "awaiting", "returned", "thrown"
    sessionInit,      \* the sessionInit of the last requestARSession call
    setupPc,          \* setupARSession: "idle", the step it is at, "returned", "thrown"
    arSession,        \* the XRSession of requestARSession: "none", "active", "ended"
    hitTestSource,    \* the XRHitTestSource of setupARSession: "none", "open", "cancelled"
    supportPc,        \* checkARSupport: "idle", "awaiting", "returned", "thrown"
    supportResult     \* the value checkARSupport returned

placementVars == <<solarSystemRef, placedRef, xrFrame, hitTestResults,
                   reticle, surfaceObject, pointerDowns, uncaughtError>>

platformVars == <<secureOrigin, navigatorXR, userAgent>>

statusVars == <<statusMessage, statusType, statusVisible, hideTimers>>

uiVars == <<platformVars, checkSupportPc, enterARPending, statusVars>>

supportVars == <<supportPc, supportResult>>

utilVars == <<requestPc, sessionInit, setupPc, arSession, hitTestSource, supportVars>>

vars == <<placementVars, xrSession, uiVars, utilVars>>

---------------------------------------------------------------------------
(* Bounds of the model *)

\* most candidates the platform returns in one frame
MaxCandidates == 3
\* most pointer-down events the user delivers
MaxPointerDowns == 2
\* most auto-hide timeouts pending at once
MaxTimers == 2

---------------------------------------------------------------------------
(* Program constants *)

\* solarSystemRef.current.position.y += 0.05
YOffset == 5
\* solarSystemRef.current.scale.setScalar(0.7)
TabletopScale == 70

---------------------------------------------------------------------------
(* Geometry: what the platform hands out *)

Origin == <<0, 0, 0>>
IdentityQuaternion == <<0, 0, 0, 1>>

\* half a turn about the vertical axis
HalfTurn == <<0, 1, 0, 0>>

\* XRRigidTransform.matrix: the column-major 4x4 matrix of a position p and
\* a unit quaternion q
MatrixOf(p, q) ==
    LET x == q[1]  y == q[2]  z == q[3]  w == q[4]
    IN << 1 - 2*(y*y + z*z), 2*(x*y + z*w),     2*(x*z - y*w),     0,
          2*(x*y - z*w),     1 - 2*(x*x + z*z), 2*(y*z + x*w),     0,
          2*(x*z + y*w),     2*(y*z - x*w),     1 - 2*(x*x + y*y), 0,
          p[1],              p[2],              p[3],              1 >>

IdentityMatrix == MatrixOf(Origin, IdentityQuaternion)

\* an XRPose as result.getPose(referenceSpace) returns it
XRPose(p, q) == [position |-> p, orientation |-> q, matrix |-> MatrixOf(p, q)]

\* the surface poses the tracked frames can hit
Poses == { XRPose(<<30, 0, -50>>, IdentityQuaternion),
           XRPose(<<100, 0, 100>>, HalfTurn) }

\* one XRHitTestResult: its getPose returns a pose, returns null, or throws
Candidates ==
    { [getPose |-> "pose", pose |-> p] : p \in Poses }
    \cup { [getPose |-> "null"], [getPose |-> "throws"] }

SeqsUpTo(S, n) == UNION { [1..k -> S] : k \in 0..n }

\* one XRFrame: frame.getHitTestResults throws, or returns a candidate list
XRFrames ==
    { [query |-> "throws"] }
    \cup { [query |-> "ok", candidates |-> c] : c \in SeqsUpTo(Candidates, MaxCandidates) }

NoFrame == [query |-> "none"]

---------------------------------------------------------------------------
(* WebXRUtils: the per-frame helpers *)

\* what the map callback of getHitTestResults yields for a null pose
Null == [null |-> TRUE]

\* Array.prototype.filter(Boolean) keeps the truthy entries
Boolean(v) == v # Null

\* the map callback of getHitTestResults: the pose copied field by field
MapResult(result) ==
    IF result.getPose = "pose"
    THEN [transform |->
            [position    |-> << result.pose.position[1],
                                result.pose.position[2],
                                result.pose.position[3] >>,
             orientation |-> << result.pose.orientation[1],
                                result.pose.orientation[2],
                                result.pose.orientation[3],
                                result.pose.orientation[4] >>,
             matrix      |-> result.pose.matrix]]
    ELSE Null

\* the entries before the first falsy one
RECURSIVE TruthyPrefix(_)
TruthyPrefix(q) ==
    IF q = << >> THEN << >>
    ELSE IF ~Boolean(Head(q)) THEN << >>
    ELSE << Head(q) >> \o TruthyPrefix(Tail(q))

\* getHitTestResults, were it to stop at the first null pose
getHitTestResults_StopsAtNull(frame) ==
    IF frame.query # "ok"
    THEN << >>
    ELSE IF \E i \in DOMAIN frame.candidates : frame.candidates[i].getPose = "throws"
    THEN << >>
    ELSE TruthyPrefix([i \in DOMAIN frame.candidates |-> MapResult(frame.candidates[i])])

\* WebXRUtils.getHitTestResults: a throw of frame.getHitTestResults or of any
\* getPose lands in the catch, which returns []
getHitTestResults(frame) ==
    IF frame.query # "ok"
    THEN << >>
    ELSE IF \E i \in DOMAIN frame.candidates : frame.candidates[i].getPose = "throws"
    THEN << >>
    ELSE SelectSeq([i \in DOMAIN frame.candidates |-> MapResult(frame.candidates[i])],
                   Boolean)

\* WebXRUtils.createReticle: hidden, matrixAutoUpdate off
createReticle == [visible |-> FALSE, matrix |-> IdentityMatrix]

\* updateReticleFromHitTest, were its else branch missing
updateReticleFromHitTest_NeverHides(r, results) ==
    IF Len(results) > 0
    THEN [visible |-> TRUE, matrix |-> results[1].transform.matrix]
    ELSE r

\* updateReticleFromHitTest, were it to show the reticle without moving it
updateReticleFromHitTest_KeepsMatrix(r, results) ==
    IF Len(results) > 0
    THEN [r EXCEPT !.visible = TRUE]
    ELSE [r EXCEPT !.visible = FALSE]

\* WebXRUtils.updateReticleFromHitTest
updateReticleFromHitTest(r, results) ==
    IF Len(results) > 0
    THEN LET result == results[1]
         IN  IF "transform" \in DOMAIN result /\ "matrix" \in DOMAIN result.transform
             THEN [visible |-> TRUE, matrix |-> result.transform.matrix]
             ELSE r
    ELSE [r EXCEPT !.visible = FALSE]

\* the default of positionObjectOnSurface's offset parameter
DefaultOffset == <<0, YOffset, 0>>

\* WebXRUtils.positionObjectOnSurface
positionObjectOnSurface(object, results, offset) ==
    IF Len(results) > 0
    THEN LET result == results[1]
         IN  IF "transform" \in DOMAIN result
             THEN [position   |-> << result.transform.position[1] + offset[1],
                                     result.transform.position[2] + offset[2],
                                     result.transform.position[3] + offset[3] >>,
                   quaternion |-> IF "orientation" \in DOMAIN result.transform
                                  THEN result.transform.orientation
                                  ELSE object.quaternion]
             ELSE object
    ELSE object

---------------------------------------------------------------------------
(* SolarSystemScene: the hit-test callback and tap-to-place *)

\* the callback is handed no matrix when the frame has no hit
NoHit == << >>

\* the matrix the hit-test hook hands to its callback: that of the best hit
HitMatrixOf(results) ==
    IF Len(results) > 0 THEN results[1].transform.matrix ELSE NoHit

\* setFromMatrixPosition, were the array read row by row
setFromMatrixPosition_RowMajor(m) == << m[4], m[8], m[12] >>

\* THREE.Vector3.setFromMatrixPosition: elements 12, 13, 14 of the
\* column-major array (1-based: 13, 14, 15)
setFromMatrixPosition(m) == << m[13], m[14], m[15] >>

\* the callback, were it not to test placedRef
onHitTest_IgnoresPlaced(group, hitMatrix, placed) ==
    IF hitMatrix # NoHit
    THEN LET position == setFromMatrixPosition(hitMatrix)
         IN  [position |-> << position[1], position[2] + YOffset, position[3] >>,
              scale    |-> TabletopScale]
    ELSE group

\* the callback, were it to reset the root when there is no hit
onHitTest_SnapsToOrigin(group, hitMatrix, placed) ==
    IF placed THEN group
    ELSE IF hitMatrix # NoHit
    THEN LET position == setFromMatrixPosition(hitMatrix)
         IN  [position |-> << position[1], position[2] + YOffset, position[3] >>,
              scale    |-> TabletopScale]
    ELSE [position |-> << 0, 0, 0 >>, scale |-> group.scale]

\* the callback given to useXRHitTest
onHitTest(group, hitMatrix, placed) ==
    IF hitMatrix # NoHit /\ ~placed
    THEN LET position == setFromMatrixPosition(hitMatrix)
         IN  [position |-> << position[1], position[2] + YOffset, position[3] >>,
              scale    |-> TabletopScale]
    ELSE group

\* a truthy value that is no THREE.Matrix4: it has no elements array
NotAMatrix4 == << "XRHitTestResult" >>

\* the callback throws: its guard passes and setFromMatrixPosition reads
\* elements 12 to 14 of a value that has none; nothing in it catches
onHitTestThrows(hitMatrix, placed) ==
    /\ hitMatrix # NoHit
    /\ ~placed
    /\ Len(hitMatrix) < 15

\* the root group as mounted: at the origin, unscaled
IdentityTransform == [position |-> Origin, scale |-> 100]

---------------------------------------------------------------------------
(* SolarSystemScene in and out of AR sessions *)

\* the scene as mounted: Unplaced, root at identity, reticle hidden
PlacementInit ==
    /\ solarSystemRef = IdentityTransform
    /\ placedRef = FALSE
    /\ xrFrame = NoFrame
    /\ hitTestResults = << >>
    /\ reticle = createReticle
    /\ surfaceObject = [position |-> Origin, quaternion |-> IdentityQuaternion]
    /\ pointerDowns = 0
    /\ uncaughtError = FALSE

\* <XR onSessionStart>: the store has entered an immersive-ar session
SessionStart ==
    /\ xrSession = "none"
    /\ xrSession' = "active"
    /\ UNCHANGED <<placementVars, uiVars, utilVars>>

\* <XR onSessionEnd>: the user or the platform ended the session
SessionEnd ==
    /\ xrSession = "active"
    /\ xrSession' = "none"
    /\ UNCHANGED <<placementVars, uiVars, utilVars>>

\* one tracked frame of the session: sample, update the reticle, place
XRFrame ==
    /\ xrSession = "active"
    /\ \E frame \in XRFrames :
          LET results == getHitTestResults(frame)
          IN  /\ xrFrame' = frame
              /\ hitTestResults' = results
              /\ reticle' = updateReticleFromHitTest(reticle, results)
              /\ surfaceObject' =
                     positionObjectOnSurface(surfaceObject, results, DefaultOffset)
              /\ solarSystemRef' =
                     onHitTest(solarSystemRef, HitMatrixOf(results), placedRef)
              /\ uncaughtError' = onHitTestThrows(HitMatrixOf(results), placedRef)
    /\ UNCHANGED <<placedRef, pointerDowns, xrSession, uiVars, utilVars>>

\* one tracked frame in which the hook hands the callback a value that is
\* no Matrix4: setFromMatrixPosition throws before the root is written
XRFrameNotMatrix ==
    /\ xrSession = "active"
    /\ \E frame \in XRFrames :
          LET results == getHitTestResults(frame)
          IN  /\ xrFrame' = frame
              /\ hitTestResults' = results
              /\ reticle' = updateReticleFromHitTest(reticle, results)
              /\ surfaceObject' =
                     positionObjectOnSurface(surfaceObject, results, DefaultOffset)
              /\ solarSystemRef' =
                     (IF onHitTestThrows(NotAMatrix4, placedRef)
                      THEN solarSystemRef
                      ELSE onHitTest(solarSystemRef, NotAMatrix4, placedRef))
              /\ uncaughtError' = onHitTestThrows(NotAMatrix4, placedRef)
    /\ UNCHANGED <<placedRef, pointerDowns, xrSession, uiVars, utilVars>>

\* handlePointerDown, were it to toggle the placement
handlePointerDown_Toggles ==
    /\ pointerDowns < MaxPointerDowns
    /\ pointerDowns' = pointerDowns + 1
    /\ placedRef' = ~placedRef
    /\ UNCHANGED <<solarSystemRef, xrFrame, hitTestResults, reticle,
                   surfaceObject, uncaughtError, xrSession, uiVars, utilVars>>

\* handlePointerDown, the onPointerDown of the root group
handlePointerDown ==
    /\ pointerDowns < MaxPointerDowns
    /\ pointerDowns' = pointerDowns + 1
    /\ placedRef' = (IF ~placedRef THEN TRUE ELSE placedRef)
    /\ UNCHANGED <<solarSystemRef, xrFrame, hitTestResults, reticle,
                   surfaceObject, uncaughtError, xrSession, uiVars, utilVars>>

---------------------------------------------------------------------------
(* WebXRUtils: session request and setup *)

\* no session was requested yet
UtilInit ==
    /\ requestPc = "idle"
    /\ sessionInit = << >>
    /\ setupPc = "idle"
    /\ arSession = "none"
    /\ hitTestSource = "none"
    /\ supportPc = "idle"
    /\ supportResult = FALSE

\* the feature lists a caller may name
FeatureLists == { << >>, <<"anchors">>, <<"hit-test", "anchors">>, <<"dom-overlay">> }

\* the values of requestARSession's features argument: an object with any of
\* the keys requiredFeatures and optionalFeatures ({} is the default)
FeatureArgs ==
    { [k \in K |-> f[k]] :
        f \in [requiredFeatures : FeatureLists, optionalFeatures : FeatureLists],
        K \in SUBSET {"requiredFeatures", "optionalFeatures"} }

\* the literal that requestARSession spreads features into
DefaultSessionInit ==
    [requiredFeatures |-> <<"hit-test">>,
     optionalFeatures |-> <<"dom-overlay">>,
     domOverlay       |-> [root |-> "document.body"]]

\* { ...a, ...b }: the keys of b replace those of a
ObjectSpread(a, b) ==
    [k \in DOMAIN a \cup DOMAIN b |-> IF k \in DOMAIN b THEN b[k] ELSE a[k]]

\* requestARSession up to its await: navigator.xr.requestSession is called
requestARSession ==
    /\ requestPc = "idle"
    /\ \E features \in FeatureArgs :
          sessionInit' = ObjectSpread(DefaultSessionInit, features)
    /\ requestPc' = "awaiting"
    /\ UNCHANGED <<setupPc, arSession, hitTestSource, placementVars, xrSession, uiVars,
                   supportVars>>

\* requestARSession after the platform answers: the session is returned, or
\* the platform's error is logged and thrown again
requestARSessionSettled ==
    /\ requestPc = "awaiting"
    /\ \E granted \in (IF navigatorXR \in {"supported", "queryFails"}
                       THEN BOOLEAN ELSE {FALSE}) :
          IF granted
          THEN requestPc' = "returned" /\ arSession' = "active"
          ELSE requestPc' = "thrown" /\ arSession' = arSession
    /\ UNCHANGED <<sessionInit, setupPc, hitTestSource, placementVars, xrSession, uiVars,
                   supportVars>>

\* one awaited step of setupARSession: on success go on to the next step, on
\* a throw or rejection the catch logs the error and throws it again
SetupStep(from, to) ==
    /\ setupPc = from
    /\ \E ok \in BOOLEAN :
          setupPc' = (IF ok /\ arSession = "active" THEN to ELSE "thrown")

\* setupARSession is called with the session: new XRWebGLLayer and
\* session.updateRenderState
setupARSession ==
    /\ requestPc = "returned"
    /\ SetupStep("idle", "local-floor")
    /\ UNCHANGED <<requestPc, sessionInit, arSession, hitTestSource,
                   placementVars, xrSession, uiVars,
                   supportVars>>

\* await session.requestReferenceSpace("local-floor")
setupReferenceSpace ==
    /\ SetupStep("local-floor", "viewer")
    /\ UNCHANGED <<requestPc, sessionInit, arSession, hitTestSource,
                   placementVars, xrSession, uiVars,
                   supportVars>>

\* await session.requestReferenceSpace("viewer")
setupViewerSpace ==
    /\ SetupStep("viewer", "hitTestSource")
    /\ UNCHANGED <<requestPc, sessionInit, arSession, hitTestSource,
                   placementVars, xrSession, uiVars,
                   supportVars>>

\* await session.requestHitTestSource({ space: viewerSpace })
setupHitTestSource ==
    /\ SetupStep("hitTestSource", "setSession")
    /\ hitTestSource' = (IF setupPc' = "setSession" THEN "open" ELSE hitTestSource)
    /\ UNCHANGED <<requestPc, sessionInit, arSession, placementVars, xrSession, uiVars,
                   supportVars>>

\* renderer.xr.enabled = true; await renderer.xr.setSession(session); return
setupRendererSession ==
    /\ SetupStep("setSession", "returned")
    /\ UNCHANGED <<requestPc, sessionInit, arSession, hitTestSource,
                   placementVars, xrSession, uiVars,
                   supportVars>>

\* the user or the platform ends the session: the platform drops the
\* session's hit-test sources with it
arSessionEnded ==
    /\ arSession = "active"
    /\ arSession' = "ended"
    /\ hitTestSource' = (IF hitTestSource = "open" THEN "cancelled" ELSE hitTestSource)
    /\ UNCHANGED <<requestPc, sessionInit, setupPc, placementVars, xrSession, uiVars,
                   supportVars>>

\* navigator.xr.isSessionSupported("immersive-ar") on the platform: it
\* resolves to the platform's answer or rejects
isSessionSupported(xr) ==
    IF xr = "queryFails"
    THEN [settled |-> "rejected", value |-> FALSE]
    ELSE [settled |-> "resolved", value |-> (xr = "supported")]

\* checkARSupport after its await, were its catch to throw the error again
\* as the catch of requestARSession does
checkARSupportAfterAwait_Rethrows(answer) ==
    IF answer.settled = "resolved"
    THEN [pc |-> "returned", value |-> answer.value]
    ELSE [pc |-> "thrown", value |-> FALSE]

\* checkARSupport after its await: return supported, or the catch logs the
\* error and returns false
checkARSupportAfterAwait(answer) ==
    IF answer.settled = "resolved"
    THEN [pc |-> "returned", value |-> answer.value]
    ELSE [pc |-> "returned", value |-> FALSE]

\* checkARSupport up to its await: without navigator.xr it returns false
checkARSupport ==
    /\ supportPc = "idle"
    /\ IF navigatorXR = "absent"
       THEN supportPc' = "returned" /\ supportResult' = FALSE
       ELSE supportPc' = "awaiting" /\ supportResult' = supportResult
    /\ UNCHANGED <<requestPc, sessionInit, setupPc, arSession, hitTestSource,
                   placementVars, xrSession, uiVars>>

\* checkARSupport once isSessionSupported has settled
checkARSupportSettled ==
    /\ supportPc = "awaiting"
    /\ LET after == checkARSupportAfterAwait(isSessionSupported(navigatorXR))
       IN  supportPc' = after.pc /\ supportResult' = after.value
    /\ UNCHANGED <<requestPc, sessionInit, setupPc, arSession, hitTestSource,
                   placementVars, xrSession, uiVars>>

UtilNext ==
    \/ checkARSupport
    \/ checkARSupportSettled
    \/ requestARSession
    \/ requestARSessionSettled
    \/ setupARSession
    \/ setupReferenceSpace
    \/ setupViewerSpace
    \/ setupHitTestSource
    \/ setupRendererSession
    \/ arSessionEnded

---------------------------------------------------------------------------
(* ARSolarSystem: status messages, the support check and the AR button *)

\* showStatus: show the message and start its 3000 ms auto-hide timeout
showStatus(message, type) ==
    /\ statusMessage' = message
    /\ statusType' = type
    /\ statusVisible' = TRUE
    /\ hideTimers' = Append(hideTimers, message)

\* the callback of showStatus's setTimeout; equal delays fire oldest first
StatusTimeout ==
    /\ Len(hideTimers) > 0
    /\ statusVisible' = FALSE
    /\ hideTimers' = Tail(hideTimers)
    /\ UNCHANGED <<statusMessage, statusType, platformVars, checkSupportPc,
                   enterARPending, xrSession, placementVars, utilVars>>

\* the message checkSupport shows when navigator.xr is missing
NoXRMessage(ua) ==
    LET isMobile == ua.mobile
        isChrome == ua.chrome
        isSafari == ua.safari /\ ~ua.chrome
    IN  IF isMobile
        THEN IF isChrome
             THEN "WebXR not detected. Update Chrome to latest version."
             ELSE IF isSafari
             THEN "WebXR not detected. Update Safari to iOS 15.4+."
             ELSE "Please use Chrome on Android or Safari on iOS for AR."
        ELSE "WebXR not available. Try on mobile device with Chrome/Safari."

\* checkSupport, run by its 1000 ms timeout, up to its await
checkSupport ==
    /\ checkSupportPc = "scheduled"
    /\ IF ~secureOrigin
       THEN /\ Len(hideTimers) < MaxTimers
            /\ showStatus("WebXR requires HTTPS. Please use https:// URL.", "error")
            /\ checkSupportPc' = "done"
       ELSE IF navigatorXR = "absent"
       THEN /\ Len(hideTimers) < MaxTimers
            /\ showStatus(NoXRMessage(userAgent), "error")
            /\ checkSupportPc' = "done"
       ELSE /\ checkSupportPc' = "awaiting"
            /\ UNCHANGED statusVars
    /\ UNCHANGED <<platformVars, enterARPending, xrSession, placementVars, utilVars>>

\* checkSupport after navigator.xr.isSessionSupported("immersive-ar") settles
checkSupportSettled ==
    /\ checkSupportPc = "awaiting"
    /\ Len(hideTimers) < MaxTimers
    /\ IF navigatorXR = "supported"
       THEN showStatus("AR ready! Tap the AR button to start.", "success")
       ELSE IF navigatorXR = "unsupported"
       THEN showStatus("AR not supported on this device/browser.", "error")
       ELSE showStatus("Failed to check AR support: ", "error")
    /\ checkSupportPc' = "done"
    /\ UNCHANGED <<platformVars, enterARPending, xrSession, placementVars, utilVars>>

\* the AR button's onClick up to its await: xrStore.enterAR() is called
ARButtonClick ==
    /\ ~enterARPending
    /\ enterARPending' = TRUE
    /\ UNCHANGED <<platformVars, checkSupportPc, statusVars, xrSession,
                   placementVars, utilVars>>

\* the platform can grant an immersive-ar session
CanGrant == navigatorXR \in {"supported", "queryFails"} /\ xrSession = "none"

\* the AR button's onClick after xrStore.enterAR() settles
ARButtonSettled ==
    /\ enterARPending
    /\ Len(hideTimers) < MaxTimers
    /\ enterARPending' = FALSE
    /\ \/ /\ CanGrant
          /\ xrSession' = "active"
          /\ showStatus("AR session started successfully!", "success")
       \/ /\ xrSession' = xrSession
          /\ showStatus("Failed to start AR: ", "error")
    /\ UNCHANGED <<platformVars, checkSupportPc, placementVars, utilVars>>

UserAgents == [mobile : BOOLEAN, chrome : BOOLEAN, safari : BOOLEAN]

\* the page as mounted on any platform: nothing shown, checkSupport scheduled
UIInit ==
    /\ secureOrigin \in BOOLEAN
    /\ navigatorXR \in {"absent", "unsupported", "supported", "queryFails"}
    /\ userAgent \in UserAgents
    /\ xrSession = "none"
    /\ checkSupportPc = "scheduled"
    /\ enterARPending = FALSE
    /\ statusMessage = ""
    /\ statusType = "normal"
    /\ statusVisible = FALSE
    /\ hideTimers = << >>

\* the page as mounted in mobile Chrome on a platform with immersive AR
UIIdle ==
    /\ UIInit
    /\ secureOrigin
    /\ navigatorXR = "supported"
    /\ userAgent = [mobile |-> TRUE, chrome |-> TRUE, safari |-> TRUE]

UINext ==
    \/ checkSupport
    \/ checkSupportSettled
    \/ ARButtonClick
    \/ ARButtonSettled
    \/ SessionEnd
    \/ StatusTimeout

\* the page as mounted on any platform
UISpecInit == PlacementInit /\ UIInit /\ UtilInit

\* the page and its AR button on any platform
UISpec == UISpecInit /\ [][UINext]_vars

---------------------------------------------------------------------------
(* Specifications.  The scene (Spec), the page around it (UISpec) and the   *)
(* session helpers of WebXRUtils (UtilSpec) do not call one another in the  *)
(* source, so each is explored on its own over the shared variables.        *)

Next ==
    \/ SessionStart
    \/ SessionEnd
    \/ XRFrame
    \/ handlePointerDown

\* the scene with frames whose hit-test callback is handed no Matrix4
FaultNext ==
    \/ Next
    \/ XRFrameNotMatrix

FaultSpecInit == PlacementInit /\ UIIdle /\ UtilInit

\* the scene in and out of AR sessions, faults of the hook included
FaultSpec == FaultSpecInit /\ [][FaultNext]_vars

\* the page as mounted on any platform, before WebXRUtils is used
UtilSpecInit ==
    /\ PlacementInit
    /\ UIInit
    /\ secureOrigin
    /\ userAgent = [mobile |-> TRUE, chrome |-> TRUE, safari |-> TRUE]
    /\ UtilInit

\* a caller of WebXRUtils requesting and setting up a session
UtilSpec == UtilSpecInit /\ [][UtilNext]_vars

\* the scene as mounted on a platform with immersive AR
Init == PlacementInit /\ UIIdle /\ UtilInit

\* the scene in and out of AR sessions
Spec == Init /\ [][Next]_vars

---------------------------------------------------------------------------
(* Claims about placement and the frame pipeline *)

\* a position raised by the fixed vertical offset
Raised(p) == << p[1], p[2] + YOffset, p[3] >>

\* C1: once placement is confirmed, no later step (and so no later hit-test
\* frame, whatever matrix it delivers) changes the position or the scale of
\* the solar-system root.
C1_AnchorFrozenOncePlaced ==
    [][placedRef => solarSystemRef' = solarSystemRef]_vars

\* C1 witness: placement is confirmed on a tracked surface and the current
\* frame has a hit elsewhere, which the root did not follow.
C1_Witness ==
    /\ placedRef
    /\ solarSystemRef.scale = TabletopScale
    /\ Len(hitTestResults) > 0
    /\ solarSystemRef.position # Raised(hitTestResults[1].transform.position)

\* C2: while Unplaced, after a frame with a non-empty hit-test result the
\* root (and the object of positionObjectOnSurface) is at the best
\* candidate's position with 0.05 added to Y.
C2_AnchorFollowsBestCandidate ==
    (~placedRef /\ Len(hitTestResults) > 0) =>
        /\ solarSystemRef.position = Raised(hitTestResults[1].transform.position)
        /\ surfaceObject.position = Raised(hitTestResults[1].transform.position)

\* C2 witness: the candidate (0.3, 0.0, -0.5) put the root at (0.3, 0.05, -0.5).
C2_Witness ==
    /\ ~placedRef
    /\ Len(hitTestResults) > 0
    /\ hitTestResults[1].transform.position = <<30, 0, -50>>
    /\ solarSystemRef.position = <<30, 5, -50>>

C4_EmptyFrameKeepsAnchor ==
    [][(XRFrame /\ Len(hitTestResults') = 0) =>
         (solarSystemRef' = solarSystemRef /\ surfaceObject' = surfaceObject)]_vars

\* C4 witness: an Unplaced root that has tracked a surface went through a
\* frame without results and did not snap back to the origin.
C4_Witness ==
    /\ ~placedRef
    /\ xrFrame # NoFrame
    /\ Len(hitTestResults) = 0
    /\ solarSystemRef.scale = TabletopScale
    /\ solarSystemRef.position # Origin

\* C5: a pointer-down always ends in Placed and never moves the root, and no
\* step takes the state from Placed back to Unplaced.
C5_PlacementIdempotentOneWay ==
    [][/\ (pointerDowns' # pointerDowns) =>
             (placedRef' /\ solarSystemRef' = solarSystemRef)
       /\ placedRef => placedRef']_vars

\* C5 witness: a second pointer-down was delivered and the state is Placed.
C5_Witness ==
    /\ pointerDowns >= 2
    /\ placedRef

\* C6 as stated: a session that starts after an earlier session has run
\* (frames were seen) starts in state Unplaced, so that its hit-test frames
\* place the content again.
C6_Original ==
    [][(SessionStart /\ xrFrame # NoFrame) => ~placedRef']_vars

\* the poses of the candidates that resolve, in the platform's order
RECURSIVE ResolvedPoses(_)
ResolvedPoses(c) ==
    IF c = << >> THEN << >>
    ELSE (IF Head(c).getPose = "pose" THEN << Head(c).pose >> ELSE << >>)
         \o ResolvedPoses(Tail(c))

\* no platform call of the frame throws
NoFault(frame) ==
    /\ frame.query = "ok"
    /\ \A i \in DOMAIN frame.candidates : frame.candidates[i].getPose # "throws"

\* C10: in a frame whose platform calls do not throw, the results are exactly
\* the poses of the candidates that resolve, in the platform's order;
\* candidates with a null pose are dropped.
C10_ResultsAreResolvedCandidates ==
    NoFault(xrFrame) =>
        LET poses == ResolvedPoses(xrFrame.candidates)
        IN  /\ Len(hitTestResults) = Len(poses)
            /\ \A i \in 1..Len(poses) : hitTestResults[i].transform = poses[i]

\* C10 witness: of three candidates the first has a null pose, and the two
\* different poses after it are returned in their order.
C10_Witness ==
    /\ NoFault(xrFrame)
    /\ Len(xrFrame.candidates) = 3
    /\ xrFrame.candidates[1].getPose = "null"
    /\ Len(hitTestResults) = 2
    /\ hitTestResults[1] # hitTestResults[2]
    /\ hitTestResults[1].transform = xrFrame.candidates[2].pose

---------------------------------------------------------------------------
(* Claims about the AR button and the session helpers *)

\* checkSupport has found immersive AR unsupported
ReportedUnsupported ==
    /\ checkSupportPc = "done"
    /\ secureOrigin
    /\ navigatorXR \in {"absent", "unsupported"}

\* a session request is in flight: xrStore.enterAR() was called where
\* navigator.xr exists, so that navigator.xr.requestSession is reached
SessionRequestPending == enterARPending /\ navigatorXR # "absent"

\* C7 as stated: once the capability check has reported immersive AR
\* unsupported, no session request is attempted.
C7_Original ==
    [][ReportedUnsupported => (SessionRequestPending' => SessionRequestPending)]_vars

\* C8 as stated: every session request lists hit-test among the required
\* features and dom-overlay among the optional features.
C8_Original ==
    (requestPc # "idle") =>
        /\ \E i \in DOMAIN sessionInit.requiredFeatures :
              sessionInit.requiredFeatures[i] = "hit-test"
        /\ \E i \in DOMAIN sessionInit.optionalFeatures :
              sessionInit.optionalFeatures[i] = "dom-overlay"

\* C9 as stated: a setup that failed leaves no opened hit-test source
\* unreleased.
C9_Original ==
    (setupPc = "thrown") => (hitTestSource # "open")

---------------------------------------------------------------------------
(* Claims about the reticle, the status message and 3D mode *)

\* C12: after a reticle update with a non-empty result list the reticle is
\* visible and its matrix is that of the first result of the same frame.
C12_ReticleShowsLatestSample ==
    (Len(hitTestResults) > 0) =>
        /\ reticle.visible
        /\ reticle.matrix = hitTestResults[1].transform.matrix

\* C12 witness: the root was placed by an earlier frame's hit at
\* (0.3, 0, -0.5) and the reticle shows the current frame's different hit.
C12_Witness ==
    /\ placedRef
    /\ solarSystemRef.position = <<30, 5, -50>>
    /\ Len(hitTestResults) > 0
    /\ hitTestResults[1].transform.position = <<100, 0, 100>>
    /\ reticle.visible
    /\ reticle.matrix = MatrixOf(<<100, 0, 100>>, HalfTurn)

\* C14 as stated: while the auto-hide timeout of the latest showStatus call
\* is pending, its message is visible.
C14_Original ==
    (hideTimers # << >>) => statusVisible

\* C15 as stated: the placement state becomes Placed only while an AR
\* session is active.
C15_Original ==
    [][(~placedRef /\ placedRef') => xrSession = "active"]_vars

\* C13: checkARSupport never throws; it returns false without navigator.xr
\* and when isSessionSupported fails, and the platform's answer otherwise.
C13_CheckARSupportNeverFails ==
    /\ supportPc # "thrown"
    /\ (supportPc = "returned") =>
          (supportResult <=> (navigatorXR = "supported"))

\* C13 witness: isSessionSupported failed and checkARSupport returned false.
C13_Witness ==
    /\ navigatorXR = "queryFails"
    /\ supportPc = "returned"
    /\ supportResult = FALSE

\* C11 as stated: no fault raised while a frame is processed leaves the
\* frame callback.
C11_Original ==
    ~uncaughtError

=============================================================================
